---- MODULE Spec2Model ----
\* Asynchronous quantum-task pipeline: HTTP submission (routes.py, task_service.py,
\* publisher.py), the task store (db/models.py and the TaskRepository contract),
\* the broker queue (consumer.py) and the worker's process_task (worker.py).
EXTENDS Integers, Sequences, FiniteSets, TLC

\* ---------------------------------------------------------------- bounds
MaxFaults == 1        \* store faults injected in one behaviour
MaxRedeliver == 1     \* deliveries the broker requeues in one behaviour
MaxForeign == 1       \* messages put on the queue by other producers in one behaviour
MaxFlips == 2         \* times the broker goes down or comes back in one behaviour
MaxEntries == 2       \* entries of a counts dictionary

\* The submissions made. task_id is generated per submission (models.py:
\* default=uuid.uuid4): the request and the task it creates share one identifier.
Requests == {"a", "b"}
TaskIds == Requests
\* The worker processes (worker.py main), replicated horizontally.
WorkerIds == {"w1", "w2"}

\* A nullable column holds <<>> (NULL) or <<value>>.
NULL == <<>>
\* A message body: whether it decodes as JSON, and the task_id it carries
\* ("" when it carries none).
NoMsg == [valid_json |-> TRUE, task_id |-> "none"]
\* A well-formed task_id that no row carries.
UnknownTask == "z"

VARIABLES
    tasks,            \* committed rows of table tasks: task_id -> row
    history,          \* committed rows of status_history, per task, in insertion order
    queue,            \* broker queue quantum_tasks (ready messages, FIFO)
    rpc,              \* per request: index of the next step of TaskService.submit_task
    response,         \* per request: HTTP status returned (0 = none yet)
    published,        \* per request: "none" | "ok" | "failed" (outcome of the publish)
    wpc,              \* per worker: position inside consume loop / process_task
    held,             \* per worker: the message being handled (NoMsg when idle)
    unacked,          \* per worker: the broker still holds the delivery as unacked
    stale,            \* per worker: the task had left PENDING when the message was delivered
    outcome,          \* per worker: what executor.execute / format_counts produced
    faults,           \* store faults injected so far
    redeliveries,     \* broker redeliveries so far
    foreign,          \* messages put on the queue by other producers so far
    request,          \* per request: the body posted to /tasks
    claimTrue,        \* per task: claims (PENDING->PROCESSING) that returned true
    claimed,          \* per worker: its claim for the delivery it holds returned true
    executed,         \* per task: "counts" or "raised" for each call of executor.execute
    commitFalse,      \* commits (PROCESSING->COMPLETED|FAILED) that returned false so far
    malformedSeen,    \* deliveries of undecodable or task_id-less messages so far
    got,              \* the last answer of GET /tasks/{task_id}
    brokerUp,         \* the broker accepts connections and channel operations
    flips,            \* changes of brokerUp so far
    opened,           \* connections connect_robust has created in the API process
    conn,             \* global _connection: the cached connection (0 = None)
    chans,            \* channels created in the API process
    chan,             \* global _channel: the cached channel (0 = None)
    cpc,              \* per caller: position inside get_rabbitmq_connection/_channel
    attempt,          \* per caller: the attempt number of the retry loop
    retry_delay,      \* per caller: seconds the next sleep will last
    slept,            \* per caller: the sleeps made so far, in seconds
    health,           \* the last answer of GET /health and what the backends did
    wstart,           \* per worker: position inside main before and at consumption
    valid,            \* per worker: what validate_qiskit returned ("none" before)
    exitcode,         \* per worker: exit status of the process (-1 while it runs)
    prefetch,         \* per worker: prefetch_count of its channel (0 = no channel)
    inbox,            \* per worker: deliveries the broker pushed, not yet taken
    handled,          \* per worker: deliveries taken from the iterator so far
    cpos,             \* per request: position between middleware, route and publisher
    hdr,              \* per request: its X-Correlation-ID header (<<>> when absent)
    cid,              \* per request: correlation_id local to dispatch
    ctx,              \* per request context: value of middleware.correlation_id_var
    bodycid,          \* per request: correlation_id written into the response body
    msgcid,           \* per request: correlation_id property of the message published
    resphdr,          \* per request: X-Correlation-ID header of the response
    fresh,            \* uuid.uuid4() calls made so far for correlation ids
    fpc,              \* position of one execution between executor, formatter and commit
    raw,              \* what executor.execute returned
    fstatus,          \* current_status of the task being executed
    fresult,          \* result column of that task
    mpc,              \* per worker process: position of main after validation
    ctask,            \* per worker process: state of the consume task
    signalled,        \* per worker process: _shutdown_event is set
    wconn,            \* per worker process: global _connection (ref) and whether it is open
    wchan,            \* per worker process: global _channel (ref) and whether it is open
    dbopen,           \* per worker process: the engine's pool has not been disposed
    released,         \* per worker process: what shutdown stopped or closed, in order
    mexit             \* per worker process: exit status (-1 while it runs)

\* The submission pipeline and the workers.
pipelineVars == <<tasks, history, queue, rpc, response, published, wpc, held, unacked,
                  stale, outcome, faults, redeliveries, foreign, request,
                  claimTrue, malformedSeen, claimed, executed, commitFalse>>
\* The other endpoints and the start-up paths.
getVars == <<got>>
brokerVars == <<brokerUp, flips, opened, conn, chans, chan, cpc, attempt, retry_delay,
                slept, health>>
consumerVars == <<wstart, valid, exitcode, prefetch, inbox, handled>>
corrVars == <<cpos, hdr, cid, ctx, bodycid, msgcid, resphdr, fresh>>
countsVars == <<fpc, raw, fstatus, fresult>>
mainVars == <<mpc, ctask, signalled, wconn, wchan, dbopen, released, mexit>>
sideVars == <<getVars, brokerVars, consumerVars, corrVars, countsVars, mainVars>>
vars == <<pipelineVars, sideVars>>

storeVars == <<tasks, history>>
httpVars == <<rpc, response, published>>
workerVars == <<wpc, held, unacked, stale, outcome, claimed>>
ghostVars == <<claimTrue, malformedSeen, executed, commitFalse>>

\* ---------------------------------------------------------------- db/models.py
PENDING == "pending"
PROCESSING == "processing"
COMPLETED == "completed"
FAILED == "failed"
TaskStatus == {PENDING, PROCESSING, COMPLETED, FAILED}
Terminal == {COMPLETED, FAILED}

\* Task.submitted_at: server_default=func.now(), the time of the inserting transaction.
SubmittedAtSkewed(now) == now + 1
submitted_at_default(now) == now

\* StatusHistory.transitioned_at: server_default=func.now().
transitioned_at_default(now) == now

\* Task.current_status: default=TaskStatus.PENDING.
current_status_default == PENDING

\* now() never runs backwards. Timestamps are compared only among the rows of
\* one task, so they are kept as ranks within the task: 0 for the inserting
\* transaction. A later transaction that writes the task begins after the
\* commit of the task's latest row and at least one round trip to the store
\* (publish and delivery, or the read and the simulation), so it reads a later
\* time: the next rank. Only the order of timestamps is ever compared, so the
\* length of the while in between is not kept.
LatestTime(t) == history[t][Len(history[t])].transitioned_at
NowChoicesBehind(t) ==
    IF t \in DOMAIN history THEN {LatestTime(t) - 1, LatestTime(t)} ELSE {0}
NowChoicesCoarse(t) ==
    IF t \in DOMAIN history THEN {LatestTime(t), LatestTime(t) + 1} ELSE {0}
NowChoices(t) ==
    IF t \in DOMAIN history THEN {LatestTime(t) + 1} ELSE {0}

\* ---------------------------------------------------------------- TaskRepository
\* create_task: one transaction inserting the task row and its first history entry.
NewTaskRow(now, shots) ==
    [current_status |-> current_status_default,
     shots          |-> shots,
     submitted_at   |-> submitted_at_default(now),
     completed_at   |-> NULL,
     result         |-> NULL,
     error_message  |-> NULL]

HistoryEntry(status, now, notes) ==
    [status |-> status, transitioned_at |-> transitioned_at_default(now), notes |-> notes]

Extend(f, k, v) == [x \in (DOMAIN f) \cup {k} |-> IF x = k THEN v ELSE f[x]]

create_task_tasks(t, now, shots) == Extend(tasks, t, NewTaskRow(now, shots))
create_task_history(t, now) == Extend(history, t, <<HistoryEntry(PENDING, now, "Task created")>>)

\* get_task: point read; the status read, "absent" when there is no such row.
GetTaskAbsentAsPending(t) == IF t \in DOMAIN tasks THEN tasks[t].current_status ELSE PENDING
get_task(t) == IF t \in DOMAIN tasks THEN tasks[t].current_status ELSE "absent"

\* update_task_status: guarded transition. The row is updated only while its
\* current_status still equals from_status; the history entry is appended in the
\* same transaction; completed_at is set when to_status is terminal.
UpdateAppliesUnguarded(t, call) == t \in DOMAIN tasks
update_applies(t, call) == t \in DOMAIN tasks /\ tasks[t].current_status = call.from_status

update_task_status_tasks(t, call, now) ==
    IF update_applies(t, call)
    THEN [tasks EXCEPT ![t] =
            [current_status |-> call.to_status,
             shots          |-> @.shots,
             submitted_at   |-> @.submitted_at,
             completed_at   |-> IF call.to_status \in Terminal THEN <<now>> ELSE @.completed_at,
             result         |-> IF call.result # NULL THEN call.result ELSE @.result,
             error_message  |-> IF call.error_message # NULL THEN call.error_message
                                ELSE @.error_message]]
    ELSE tasks

UpdateHistoryNotAppended(t, call, now) == history
UpdateHistoryOverwritten(t, call, now) ==
    IF update_applies(t, call)
    THEN [history EXCEPT ![t] = <<HistoryEntry(call.to_status, now, call.notes)>>]
    ELSE history
UpdateHistoryAllTasks(t, call, now) ==
    IF update_applies(t, call)
    THEN [u \in DOMAIN history |-> Append(history[u], HistoryEntry(call.to_status, now, call.notes))]
    ELSE history
UpdateHistoryUnguarded(t, call, now) ==
    IF t \in DOMAIN history
    THEN [history EXCEPT ![t] = Append(@, HistoryEntry(call.to_status, now, call.notes))]
    ELSE history
update_task_status_history(t, call, now) ==
    IF update_applies(t, call)
    THEN [history EXCEPT ![t] = Append(@, HistoryEntry(call.to_status, now, call.notes))]
    ELSE history

\* ---------------------------------------------------------------- api/models.py
\* TaskSubmitRequest: circuit is required, min_length=1; shots is optional,
\* default 1024, ge=1, le=100000.
ShotsMin == 1
ShotsMax == 100000
ShotsDefault == 1024

\* A posted body: circuit is <<>> when the key is missing, else <<text>>; shots is
\* omitted, null, or an integer.
Omitted == [kind |-> "omitted", n |-> 0]
Null == [kind |-> "null", n |-> 0]
Int_(n) == [kind |-> "int", n |-> n]
Body(circuit, shots) == [circuit |-> circuit, shots |-> shots]

Circuits == {<<>>, <<"">>, <<"OPENQASM 3;">>}
ShotsInputs ==
    {Omitted, Null, Int_(ShotsMin - 1), Int_(ShotsMin), Int_(ShotsMax), Int_(ShotsMax + 1)}
Bodies == {Body(c, n) : c \in Circuits, n \in ShotsInputs}

\* The bodies posted in the behaviours of the whole pipeline: a well-formed one
\* and one that validation rejects.
PipelineBodies == {Body(<<"OPENQASM 3;">>, Omitted), Body(<<"">>, Omitted)}

\* Pydantic validation of the body against TaskSubmitRequest.
ValidNoUpperBound(b) ==
    /\ b.circuit # <<>>
    /\ b.circuit[1] # ""
    /\ b.shots.kind = "int" => b.shots.n >= ShotsMin
Valid(b) ==
    /\ b.circuit # <<>>
    /\ b.circuit[1] # ""
    /\ b.shots.kind = "int" => (b.shots.n >= ShotsMin /\ b.shots.n <= ShotsMax)

\* request.shots after validation: the default when the key is omitted, None
\* (here 0, which no validated integer equals) when it is null.
ParsedShots(b) ==
    CASE b.shots.kind = "omitted" -> ShotsDefault
      [] b.shots.kind = "null" -> 0
      [] OTHER -> b.shots.n

\* routes.py: shots=request.shots or 1024.
RouteShots(b) == IF ParsedShots(b) = 0 THEN ShotsDefault ELSE ParsedShots(b)

\* ---------------------------------------------------------------- api/utils.py
\* A task_id path parameter as the client writes it: the 122 bits a version-4
\* UUID is free to choose (named by the task they identify), the version and
\* variant bits, and the way the text is written ("canonical" is what str(UUID)
\* prints, "braced" stands for the other spellings UUID() reads: braces, urn:
\* prefix, no hyphens, upper case, "garbage" for text UUID() does not read).
Uuid(bits, version, form) == [bits |-> bits, version |-> version, form |-> form]
NoId == Uuid("none", 0, "none")
\* str(task.task_id) of the row created for request r (uuid.uuid4()).
Str(t) == Uuid(t, 4, "canonical")
ClientIds ==
    {Str(t) : t \in TaskIds \cup {UnknownTask}}
      \cup {Uuid("a", 1, "canonical"), Uuid("a", 4, "braced"), Uuid("a", 4, "garbage")}
\* What the claim calls UUID-v4 form.
IsUuid4Form(x) == x.form = "canonical" /\ x.version = 4

ValidateUuidForceV1(x) ==
    IF x.form = "garbage" THEN NoId ELSE Uuid(x.bits, 1, "canonical")
\* validate_uuid: str(UUID(task_id, version=4)). UUID() raises ValueError on
\* text it cannot read (NoId here: the route answers 400); on any text it can
\* read it overwrites the version and variant bits with those of version 4.
validate_uuid(x) ==
    IF x.form = "garbage" THEN NoId ELSE Uuid(x.bits, 4, "canonical")

\* The answer of GET /tasks/{task_id}: the path parameter, the identifier the
\* store was asked for (NoId when it was not asked), the HTTP status, and the
\* body of a 200.
Answer(id, looked, code, task_id, status, entries) ==
    [id |-> id, looked |-> looked, code |-> code, task_id |-> task_id,
     status |-> status, entries |-> entries]
NoGet == Answer(NoId, NoId, 0, NoId, "none", 0)

\* ---------------------------------------------------------------- queue/__init__.py
\* The coroutines of the API process that use the broker: the lifespan start-up
\* (app.py: await get_rabbitmq_connection()) and two requests publishing
\* (publisher.py: await get_rabbitmq_channel()).
Callers == {"startup", "p1", "p2"}
\* Defaults of get_rabbitmq_connection.
max_retries == 5
initial_retry_delay == 1
max_retry_delay == 60
backoff_factor == 2

NoHealth == [db |-> FALSE, broker |-> FALSE, database_status |-> "none",
             queue_status |-> "none", status |-> "none"]

BrokerInit ==
    /\ brokerUp = FALSE
    /\ flips = 0
    /\ opened = 0
    /\ conn = 0
    /\ chans = 0
    /\ chan = 0
    /\ cpc = [c \in Callers |-> "idle"]
    /\ attempt = [c \in Callers |-> 0]
    /\ retry_delay = [c \in Callers |-> 0]
    /\ slept = [c \in Callers |-> <<>>]
    /\ health = NoHealth

\* ---------------------------------------------------------------- worker.py main
ConsumerInit ==
    /\ wstart = [w \in WorkerIds |-> "init"]
    /\ valid = [w \in WorkerIds |-> "none"]
    /\ exitcode = [w \in WorkerIds |-> -1]
    /\ prefetch = [w \in WorkerIds |-> 0]
    /\ inbox = [w \in WorkerIds |-> <<>>]
    /\ handled = [w \in WorkerIds |-> 0]

\* The cached object of queue/__init__.py: ref is FALSE for None; open is
\* "not is_closed" of the object last created.
NoObject == [ref |-> FALSE, open |-> FALSE]
Opened == [ref |-> TRUE, open |-> TRUE]

MainInit ==
    /\ mpc = [w \in WorkerIds |-> "start"]
    /\ ctask = [w \in WorkerIds |-> "none"]
    /\ signalled = [w \in WorkerIds |-> FALSE]
    /\ wconn = [w \in WorkerIds |-> NoObject]
    /\ wchan = [w \in WorkerIds |-> NoObject]
    /\ dbopen = [w \in WorkerIds |-> TRUE]
    /\ released = [w \in WorkerIds |-> <<>>]
    /\ mexit = [w \in WorkerIds |-> -1]

\* ---------------------------------------------------------------- middleware.py
\* correlation_id_var: ContextVar("correlation_id", default="").
CtxDefault == ""

CorrInit ==
    /\ cpos = [r \in Requests |-> "new"]
    /\ hdr = [r \in Requests |-> <<>>]
    /\ cid = [r \in Requests |-> ""]
    /\ ctx = [r \in Requests |-> CtxDefault]
    /\ bodycid = [r \in Requests |-> ""]
    /\ msgcid = [r \in Requests |-> ""]
    /\ resphdr = [r \in Requests |-> ""]
    /\ fresh = 0

\* ---------------------------------------------------------------- counts
\* A counts object: whether it is a dict, and its items. A key is a str (its
\* characters) or not; a value is an int (its number) or of another type.
Key(is_str, chars) == [is_str |-> is_str, chars |-> chars]
Value(is_int, n) == [is_int |-> is_int, n |-> n]
Counts(is_dict, items) == [is_dict |-> is_dict, items |-> items]
NoCounts == Counts(FALSE, <<>>)

CountsInit ==
    /\ fpc = "execute"
    /\ raw = NoCounts
    /\ fstatus = PROCESSING
    /\ fresult = NULL

SideInit ==
    /\ got = NoGet
    /\ BrokerInit
    /\ ConsumerInit
    /\ CorrInit
    /\ CountsInit
    /\ MainInit

\* ---------------------------------------------------------------- Init
InitWith(bodies) ==
    /\ request \in [Requests -> bodies]
    /\ tasks = <<>>
    /\ history = <<>>
    /\ queue = <<>>
    /\ rpc = [r \in Requests |-> 1]
    /\ response = [r \in Requests |-> 0]
    /\ published = [r \in Requests |-> "none"]
    /\ wpc = [w \in WorkerIds |-> "idle"]
    /\ held = [w \in WorkerIds |-> NoMsg]
    /\ unacked = [w \in WorkerIds |-> FALSE]
    /\ stale = [w \in WorkerIds |-> FALSE]
    /\ outcome = [w \in WorkerIds |-> "none"]
    /\ faults = 0
    /\ redeliveries = 0
    /\ foreign = 0
    /\ claimTrue = [t \in TaskIds |-> 0]
    /\ claimed = [w \in WorkerIds |-> FALSE]
    /\ executed = [t \in TaskIds \cup {UnknownTask} |-> <<>>]
    /\ commitFalse = 0
    /\ malformedSeen = 0
    /\ SideInit

Init == InitWith(PipelineBodies)

\* ---------------------------------------------------------------- publisher.py
PublishOutcomes == {"ok", "connection_error", "channel_error", "unexpected"}

\* QueuePublisher.publish_task_message: True after a publish, False from each of the
\* three except clauses; no exception leaves the method.
publish_task_message(o) == o = "ok"
publish_raises(o) == FALSE

Message(t) == [valid_json |-> TRUE, task_id |-> t]

\* ---------------------------------------------------------------- task_service.py
\* TaskService.submit_task: create the task in the store, then publish.
SubmitStepsPublishFirst == <<"publish", "create">>
SubmitSteps == <<"create", "publish">>

Done == Len(SubmitSteps) + 1
Step(r) == IF rpc[r] < Done THEN SubmitSteps[rpc[r]] ELSE "done"

Without(f, k) == [x \in (DOMAIN f) \ {k} |-> f[x]]

\* The store as submit_task leaves it after the publish attempt: nothing is undone.
StoreAfterPublishRollback(r, ok) ==
    IF ok THEN <<tasks, history>> ELSE <<Without(tasks, r), Without(history, r)>>
store_after_publish(r, ok) == <<tasks, history>>

\* ---------------------------------------------------------------- routes.py
\* submit_task: the response for the exception (if any) that left TaskService.
ResponseStatusSwallow(exc) == 200
ResponseStatus(exc) ==
    CASE exc = "none" -> 200
      [] exc = "validation" -> 400
      [] exc = "amqp" -> 503
      [] exc = "sqlalchemy" -> 503
      [] OTHER -> 500

\* One step of the request ends: either an exception reaches the route, or the
\* service goes on to its next step and, after the last one, the route answers.
Advance(r, exc) ==
    IF exc # "none"
    THEN /\ rpc' = [rpc EXCEPT ![r] = Done]
         /\ response' = [response EXCEPT ![r] = ResponseStatus(exc)]
    ELSE /\ rpc' = [rpc EXCEPT ![r] = @ + 1]
         /\ response' = [response EXCEPT ![r] =
                           IF rpc[r] + 1 = Done THEN ResponseStatus("none") ELSE @]

RollbackKeepsRow(r) == Extend(tasks, r, NewTaskRow(0, ShotsDefault))
\* session.py get_db: except Exception: await session.rollback(). Nothing of the
\* failed create_task stays in the store.
rollback_tasks(r) == tasks

SubmitCreate(r) ==
    /\ Step(r) = "create"
    /\ \/ /\ ~Valid(request[r])
          /\ Advance(r, "validation")
          /\ UNCHANGED <<storeVars, faults>>
       \/ /\ Valid(request[r])
          /\ \E now \in NowChoices(r) :
                /\ tasks' = create_task_tasks(r, now, RouteShots(request[r]))
                /\ history' = create_task_history(r, now)
          /\ Advance(r, "none")
          /\ UNCHANGED faults
       \/ /\ Valid(request[r])
          /\ faults < MaxFaults
          /\ faults' = faults + 1
          /\ Advance(r, "sqlalchemy")
          /\ tasks' = rollback_tasks(r)
          /\ UNCHANGED history
    /\ UNCHANGED <<queue, published, workerVars, redeliveries, foreign, request, sideVars, ghostVars>>

SubmitPublish(r) ==
    /\ Step(r) = "publish"
    /\ \E o \in PublishOutcomes :
          /\ queue' = IF o = "ok" THEN Append(queue, Message(r)) ELSE queue
          /\ published' = [published EXCEPT ![r] = IF o = "ok" THEN "ok" ELSE "failed"]
          /\ tasks' = store_after_publish(r, publish_task_message(o))[1]
          /\ history' = store_after_publish(r, publish_task_message(o))[2]
          /\ Advance(r, IF publish_raises(o) THEN "amqp" ELSE "none")
    /\ UNCHANGED <<workerVars, faults, redeliveries, foreign, request, sideVars, ghostVars>>

\* ---------------------------------------------------------------- result_formatter.py
\* ResultFormatter.format_error: "{error_category}: {exception_type}: {details}".
format_error(exc_type, error_category) == <<error_category, exc_type>>

\* ---------------------------------------------------------------- worker.py
\* What the execution step of process_task can produce: counts that pass
\* format_counts, or one of the exceptions the three except clauses tell apart;
\* "setup_error" is an exception raised before the inner try is entered.
ExecOutcomes ==
    {"counts", "QASM3ImporterError", "AerError", "MemoryError", "ValueError", "setup_error"}

\* The exceptions raised inside the inner try, by executor.execute or format_counts.
SimulatorErrors == ExecOutcomes \ {"counts", "setup_error"}

\* The outcomes for which executor.execute was called ("ValueError" stands for
\* an exception of no class the except clauses name, raised by execute or by
\* format_counts on what execute returned).
SimulatorOutcomes == ExecOutcomes \ {"setup_error"}

\* What a call of executor.execute did: it returned counts that format_counts
\* accepted, or it (or format_counts) raised.
Produced(o) == IF o = "counts" THEN "counts" ELSE "raised"

\* Idempotency check: these statuses make process_task return at once.
AlreadyProcessed == {PROCESSING, COMPLETED, FAILED}

Call(from, to, result, error_message, notes) ==
    [from_status |-> from, to_status |-> to, result |-> result,
     error_message |-> error_message, notes |-> notes]

\* Step 1: PENDING -> PROCESSING.
ClaimCall == Call(PENDING, PROCESSING, NULL, NULL, "Worker started processing")

\* Step 3 and the three except clauses of step 2: the commit of the outcome.
CommitCallResultDropped(o) ==
    IF o = "counts"
    THEN Call(PROCESSING, COMPLETED, NULL, NULL, "Task completed successfully")
    ELSE Call(PROCESSING, FAILED, NULL, format_error(o, "Unexpected error"), "Unexpected error")
CommitCallFromPending(o) ==
    IF o = "counts"
    THEN Call(PROCESSING, COMPLETED, <<"counts">>, NULL, "Task completed successfully")
    ELSE Call(PENDING, FAILED, NULL, format_error(o, "Unexpected error"), "Unexpected error")
CommitCall(o) ==
    CASE o = "counts" ->
           Call(PROCESSING, COMPLETED, <<"counts">>, NULL, "Task completed successfully")
      [] o = "QASM3ImporterError" ->
           Call(PROCESSING, FAILED, NULL, format_error(o, "Circuit parse error"),
                "Circuit parse error")
      [] o \in {"AerError", "MemoryError"} ->
           Call(PROCESSING, FAILED, NULL, format_error(o, "Execution error"),
                "Circuit execution error")
      [] OTHER ->
           Call(PROCESSING, FAILED, NULL, format_error(o, "Unexpected error"),
                "Unexpected error")

\* The outer except clause: first from PROCESSING, then from PENDING.
HandlerCall(o) ==
    Call(PROCESSING, FAILED, NULL, <<o>>, "Task failed during processing")
HandlerPendingCallFromCompleted(o) ==
    Call(COMPLETED, FAILED, NULL, <<o>>, "Task failed before processing")
HandlerPendingCall(o) ==
    Call(PENDING, FAILED, NULL, <<o>>, "Task failed before processing")

\* A store operation raises (I/O or connection fault).
Fault ==
    /\ faults < MaxFaults
    /\ faults' = faults + 1

\* process_task returns and message.process() acknowledges the delivery.
Return(w) ==
    /\ wpc' = [wpc EXCEPT ![w] = "idle"]
    /\ held' = [held EXCEPT ![w] = NoMsg]
    /\ unacked' = [unacked EXCEPT ![w] = FALSE]
    /\ stale' = [stale EXCEPT ![w] = FALSE]
    /\ outcome' = [outcome EXCEPT ![w] = "none"]
    /\ claimed' = [claimed EXCEPT ![w] = FALSE]

Goto(w, label, o) ==
    /\ wpc' = [wpc EXCEPT ![w] = label]
    /\ outcome' = [outcome EXCEPT ![w] = o]
    /\ UNCHANGED <<held, unacked, stale, claimed>>

Apply(w, call) ==
    \E now \in NowChoices(held[w].task_id) :
       /\ tasks' = update_task_status_tasks(held[w].task_id, call, now)
       /\ history' = update_task_status_history(held[w].task_id, call, now)

\* The worker process ends: its consume loop is over and whatever it was awaiting
\* is abandoned.
Stop(w) ==
    /\ wpc' = [wpc EXCEPT ![w] = "stopped"]
    /\ held' = [held EXCEPT ![w] = NoMsg]
    /\ unacked' = [unacked EXCEPT ![w] = FALSE]
    /\ stale' = [stale EXCEPT ![w] = FALSE]
    /\ outcome' = [outcome EXCEPT ![w] = "none"]
    /\ claimed' = [claimed EXCEPT ![w] = FALSE]

\* consumer.py: message.process() is entered with its defaults; an exception that
\* leaves the block rejects the delivery with this requeue flag.
ProcessRequeue == FALSE

\* The ready queue after a delivery taken from it was rejected.
QueueAfterReject(q, m) == IF ProcessRequeue THEN Append(q, m) ELSE q

\* process_task, task_id extraction: a missing (falsy) task_id and one that is no
\* UUID both make process_task return.
HasTaskId(m) == m.task_id # "" /\ m.task_id \in TaskIds \cup {UnknownTask}

\* consumer.py: the queue iterator hands the next ready message to an idle worker;
\* the body decodes, the callback is entered and process_task finds a task_id.
Deliver(w) ==
    /\ wpc[w] = "idle"
    /\ queue # <<>>
    /\ Head(queue).valid_json
    /\ HasTaskId(Head(queue))
    /\ queue' = Tail(queue)
    /\ wpc' = [wpc EXCEPT ![w] = "get_task"]
    /\ held' = [held EXCEPT ![w] = Head(queue)]
    /\ unacked' = [unacked EXCEPT ![w] = TRUE]
    /\ stale' = [stale EXCEPT ![w] = get_task(Head(queue).task_id) \in AlreadyProcessed]
    /\ UNCHANGED <<storeVars, httpVars, outcome, claimed, faults, redeliveries, foreign, request, sideVars, ghostVars>>

\* consumer.py: json.loads raises; the except clause logs and re-raises. The
\* exception leaves message.process(), which rejects the delivery, then the
\* iterator and consume_messages: the consume task is over and main goes on to
\* its cleanup.
DeliverUndecodable(w) ==
    /\ wpc[w] = "idle"
    /\ queue # <<>>
    /\ ~Head(queue).valid_json
    /\ queue' = QueueAfterReject(Tail(queue), Head(queue))
    /\ Stop(w)
    /\ malformedSeen' = malformedSeen + 1
    /\ UNCHANGED <<storeVars, httpVars, faults, redeliveries, foreign, request, sideVars, claimTrue, executed,
                   commitFalse>>

\* process_task: no usable task_id; it logs and returns, the delivery is acknowledged.
DeliverNoTaskId(w) ==
    /\ wpc[w] = "idle"
    /\ queue # <<>>
    /\ Head(queue).valid_json
    /\ ~HasTaskId(Head(queue))
    /\ queue' = Tail(queue)
    /\ Return(w)
    /\ malformedSeen' = malformedSeen + 1
    /\ UNCHANGED <<storeVars, httpVars, faults, redeliveries, foreign, request, sideVars, claimTrue, executed,
                   commitFalse>>

\* Another producer puts a message on quantum_tasks: a body that is no JSON, a
\* JSON body without task_id, or a task_id no row carries.
ForeignMessages ==
    {[valid_json |-> FALSE, task_id |-> ""],
     [valid_json |-> TRUE, task_id |-> ""],
     [valid_json |-> TRUE, task_id |-> UnknownTask]}

ForeignPublish ==
    /\ foreign < MaxForeign
    /\ foreign' = foreign + 1
    /\ \E m \in ForeignMessages : queue' = Append(queue, m)
    /\ UNCHANGED <<storeVars, httpVars, workerVars, faults, redeliveries, request, sideVars,
                   ghostVars>>

\* The broker loses the consumer's channel and requeues its unacknowledged
\* delivery; the worker goes on with the message it holds.
Redeliver(w) ==
    /\ unacked[w]
    /\ redeliveries < MaxRedeliver
    /\ redeliveries' = redeliveries + 1
    /\ queue' = <<held[w]>> \o queue
    /\ unacked' = [unacked EXCEPT ![w] = FALSE]
    /\ UNCHANGED <<storeVars, httpVars, wpc, held, stale, outcome, claimed,
                   faults, foreign, request, sideVars, ghostVars>>

\* process_task: repository.get_task and the idempotency check.
GetTask(w) ==
    /\ wpc[w] = "get_task"
    /\ \/ /\ Fault
          /\ Goto(w, "handler", "store_fault")
       \/ /\ get_task(held[w].task_id) \in AlreadyProcessed \cup {"absent"}
          /\ Return(w)
          /\ UNCHANGED faults
       \/ /\ get_task(held[w].task_id) \notin AlreadyProcessed \cup {"absent"}
          /\ Goto(w, "claim", "none")
          /\ UNCHANGED faults
    /\ UNCHANGED <<storeVars, queue, httpVars, redeliveries, foreign, request, sideVars, ghostVars>>

\* process_task: the claim, update_task_status(PENDING -> PROCESSING).
Claim(w) ==
    /\ wpc[w] = "claim"
    /\ LET t == held[w].task_id IN
       \/ /\ Fault
          /\ Goto(w, "handler", "store_fault")
          /\ UNCHANGED <<storeVars, claimTrue>>
       \/ /\ update_applies(t, ClaimCall)
          /\ Apply(w, ClaimCall)
          /\ claimTrue' = [claimTrue EXCEPT ![t] = @ + 1]
          /\ wpc' = [wpc EXCEPT ![w] = "execute"]
          /\ outcome' = [outcome EXCEPT ![w] = "none"]
          /\ claimed' = [claimed EXCEPT ![w] = TRUE]
          /\ UNCHANGED <<held, unacked, stale, faults>>
       \/ /\ ~update_applies(t, ClaimCall)
          /\ Return(w)
          /\ UNCHANGED <<storeVars, faults, claimTrue>>
    /\ UNCHANGED <<queue, httpVars, redeliveries, foreign, request, sideVars, malformedSeen,
                   executed, commitFalse>>

\* process_task: QiskitExecutor(), executor.execute in the thread pool, format_counts.
Execute(w) ==
    /\ wpc[w] = "execute"
    /\ \E o \in ExecOutcomes :
          /\ Goto(w, IF o = "setup_error" THEN "handler" ELSE "commit", o)
          /\ executed' = [executed EXCEPT ![held[w].task_id] =
                             IF o \in SimulatorOutcomes THEN Append(@, Produced(o)) ELSE @]
    /\ UNCHANGED <<storeVars, queue, httpVars, faults, redeliveries, foreign, request, sideVars,
                   claimTrue, malformedSeen, commitFalse>>

\* process_task: the commit of the outcome (PROCESSING -> COMPLETED | FAILED).
Commit(w) ==
    /\ wpc[w] = "commit"
    /\ \/ /\ Fault
          /\ Goto(w, "handler", "store_fault")
          /\ UNCHANGED storeVars
       \/ /\ Apply(w, CommitCall(outcome[w]))
          /\ Return(w)
          /\ UNCHANGED faults
    /\ commitFalse' = IF wpc'[w] = "idle" /\ ~update_applies(held[w].task_id, CommitCall(outcome[w]))
                      THEN commitFalse + 1 ELSE commitFalse
    /\ UNCHANGED <<queue, httpVars, redeliveries, foreign, request, sideVars, claimTrue,
                   malformedSeen, executed>>

\* process_task, outer except: update_task_status(PROCESSING -> FAILED).
Handler(w) ==
    /\ wpc[w] = "handler"
    /\ \/ /\ Fault
          /\ Return(w)
          /\ UNCHANGED storeVars
       \/ /\ update_applies(held[w].task_id, HandlerCall(outcome[w]))
          /\ Apply(w, HandlerCall(outcome[w]))
          /\ Return(w)
          /\ UNCHANGED faults
       \/ /\ ~update_applies(held[w].task_id, HandlerCall(outcome[w]))
          /\ Goto(w, "handler_pending", outcome[w])
          /\ UNCHANGED <<storeVars, faults>>
    /\ UNCHANGED <<queue, httpVars, redeliveries, foreign, request, sideVars, ghostVars>>

\* process_task, outer except: the second attempt, update_task_status(PENDING -> FAILED).
HandlerPending(w) ==
    /\ wpc[w] = "handler_pending"
    /\ \/ /\ Fault
          /\ Return(w)
          /\ UNCHANGED storeVars
       \/ /\ Apply(w, HandlerPendingCall(outcome[w]))
          /\ Return(w)
          /\ UNCHANGED faults
    /\ UNCHANGED <<queue, httpVars, redeliveries, foreign, request, sideVars, ghostVars>>

\* worker.py main: SIGINT/SIGTERM sets the shutdown event and main cancels the
\* consume task. CancelledError is raised at the await the task is suspended on
\* and is no Exception: no except clause of process_task or of consume_messages
\* catches it; a delivery the worker still holds is rejected by message.process().
Shutdown(w) ==
    /\ wpc[w] # "stopped"
    /\ Stop(w)
    /\ queue' = IF unacked[w] THEN QueueAfterReject(queue, held[w]) ELSE queue
    /\ UNCHANGED <<storeVars, httpVars, faults, redeliveries, foreign, request, sideVars, ghostVars>>

\* ---------------------------------------------------------------- specification
Next ==
    \/ \E r \in Requests : SubmitCreate(r)
    \/ \E r \in Requests : SubmitPublish(r)
    \/ \E w \in WorkerIds : Deliver(w)
    \/ \E w \in WorkerIds : Redeliver(w)
    \/ \E w \in WorkerIds : GetTask(w)
    \/ \E w \in WorkerIds : Claim(w)
    \/ \E w \in WorkerIds : Execute(w)
    \/ \E w \in WorkerIds : Commit(w)
    \/ \E w \in WorkerIds : Handler(w)
    \/ \E w \in WorkerIds : HandlerPending(w)
    \/ \E w \in WorkerIds : Shutdown(w)

Spec == Init /\ [][Next]_vars

\* The same system on a queue that other producers write to as well.
NextForeign ==
    \/ Next
    \/ ForeignPublish
    \/ \E w \in WorkerIds : DeliverUndecodable(w)
    \/ \E w \in WorkerIds : DeliverNoTaskId(w)

SpecForeign == Init /\ [][NextForeign]_vars

\* The submission route alone, over every kind of posted body.
InitSubmit == InitWith(Bodies)

NextSubmit ==
    \/ \E r \in Requests : SubmitCreate(r)
    \/ \E r \in Requests : SubmitPublish(r)

SpecSubmit == InitSubmit /\ [][NextSubmit]_vars

\* Store and broker available and at least one worker running: no store
\* operation raises, every publish goes through, no delivery is requeued by a
\* lost channel, and some worker has not been stopped.
Available ==
    /\ faults = 0
    /\ redeliveries = 0
    /\ \A r \in Requests : published[r] # "failed"
    /\ \E w \in WorkerIds : wpc[w] # "stopped"

NextAvailable == Next /\ Available'

\* A step of the program itself, not the arrival of a signal.
Progress == NextAvailable /\ (\A w \in WorkerIds : wpc'[w] = "stopped" => wpc[w] = "stopped")

\* Every request handler and every running worker's loop keeps taking steps: a
\* request is served to its end, the broker hands ready messages to idle
\* consumers, and process_task runs to its return.
SpecLive == Init /\ [][NextAvailable]_vars /\ WF_vars(Progress)

\* ---------------------------------------------------------------- GET /tasks/{task_id}
\* TaskRepository.get_task_with_history: the row whose task_id is the one asked
\* for, NULL when there is none.
get_task_with_history(id) ==
    IF \E t \in DOMAIN tasks : Str(t) = id
    THEN <<CHOOSE t \in DOMAIN tasks : Str(t) = id>>
    ELSE NULL

\* get_task_status, one request from validation to the response. The read of
\* the store either answers or raises SQLAlchemyError.
GetStatus(x) ==
    /\ LET id == validate_uuid(x) IN
         IF id = NoId
         THEN got' = Answer(x, NoId, 400, NoId, "none", 0)
         ELSE \/ got' = Answer(x, id, 503, NoId, "none", 0)
              \/ LET found == get_task_with_history(id) IN
                   IF found = NULL
                   THEN got' = Answer(x, id, 404, NoId, "none", 0)
                   ELSE got' = Answer(x, id, 200, Str(found[1]),
                                      tasks[found[1]].current_status,
                                      Len(history[found[1]]))
    /\ UNCHANGED <<pipelineVars, mainVars, brokerVars, consumerVars, corrVars, countsVars>>

\* The pipeline with store and broker answering and the workers left running,
\* and clients asking for task statuses at any moment.
Calm ==
    /\ faults = 0
    /\ redeliveries = 0
    /\ \A w \in WorkerIds : wpc[w] # "stopped"

NextGet ==
    \/ Next /\ Calm'
    \/ \E x \in ClientIds : GetStatus(x)

SpecGet == Init /\ [][NextGet]_vars

\* ---------------------------------------------------------------- broker connection
Min(a, b) == IF a < b THEN a ELSE b
NextDelayLinear(d) == Min(d + 1, max_retry_delay)
\* retry_delay = min(retry_delay * backoff_factor, max_retry_delay)
NextDelay(d) == Min(d * backoff_factor, max_retry_delay)

\* The broker goes down or comes back.
BrokerFlip ==
    /\ flips < MaxFlips
    /\ flips' = flips + 1
    /\ brokerUp' = ~brokerUp
    /\ UNCHANGED <<pipelineVars, mainVars, getVars, consumerVars, corrVars, countsVars, opened, conn, chans, chan, cpc, attempt,
                   retry_delay, slept, health>>

\* The synchronous head of a call, up to its first await. The lifespan calls
\* get_rabbitmq_connection; requests are served once the start-up has ended and
\* call get_rabbitmq_channel, which returns the cached channel, or else calls
\* get_rabbitmq_connection, which returns the cached connection or enters the
\* retry loop. Connections are robust: closed only by close_rabbitmq.
CallBroker(c) ==
    /\ cpc[c] = "idle"
    /\ c # "startup" => cpc["startup"] \in {"done", "failed"}
    /\ IF c # "startup" /\ chan # 0
       THEN cpc' = [cpc EXCEPT ![c] = "done"] /\ UNCHANGED <<attempt, retry_delay>>
       ELSE IF conn # 0
       THEN /\ cpc' = [cpc EXCEPT ![c] = IF c = "startup" THEN "done" ELSE "channel"]
            /\ UNCHANGED <<attempt, retry_delay>>
       ELSE /\ cpc' = [cpc EXCEPT ![c] = "connect"]
            /\ attempt' = [attempt EXCEPT ![c] = 1]
            /\ retry_delay' = [retry_delay EXCEPT ![c] = initial_retry_delay]
    /\ UNCHANGED <<pipelineVars, mainVars, getVars, consumerVars, corrVars, countsVars, brokerUp, flips, opened, conn, chans, chan,
                   slept, health>>

\* await aio_pika.connect_robust(...) completes: the connection is stored in
\* _connection and returned, or the attempt failed and the loop either goes to
\* sleep or, on the last attempt, raises ConnectionError.
Connect(c) ==
    /\ cpc[c] = "connect"
    /\ IF brokerUp
       THEN /\ opened' = opened + 1
            /\ conn' = opened + 1
            /\ cpc' = [cpc EXCEPT ![c] = IF c = "startup" THEN "done" ELSE "channel"]
       ELSE /\ cpc' = [cpc EXCEPT ![c] = IF attempt[c] < max_retries THEN "sleep"
                                                                    ELSE "failed"]
            /\ UNCHANGED <<opened, conn>>
    /\ UNCHANGED <<pipelineVars, mainVars, getVars, consumerVars, corrVars, countsVars, brokerUp, flips, chans, chan, attempt,
                   retry_delay, slept, health>>

\* await asyncio.sleep(retry_delay), then the next attempt.
Sleep(c) ==
    /\ cpc[c] = "sleep"
    /\ slept' = [slept EXCEPT ![c] = Append(@, retry_delay[c])]
    /\ retry_delay' = [retry_delay EXCEPT ![c] = NextDelay(@)]
    /\ attempt' = [attempt EXCEPT ![c] = @ + 1]
    /\ cpc' = [cpc EXCEPT ![c] = "connect"]
    /\ UNCHANGED <<pipelineVars, mainVars, getVars, consumerVars, corrVars, countsVars, brokerUp, flips, opened, conn, chans, chan,
                   health>>

\* _channel = await connection.channel() completes, or raises (RuntimeError).
OpenChannel(c) ==
    /\ cpc[c] = "channel"
    /\ IF brokerUp
       THEN /\ chans' = chans + 1
            /\ chan' = chans + 1
            /\ cpc' = [cpc EXCEPT ![c] = "qos"]
       ELSE /\ cpc' = [cpc EXCEPT ![c] = "failed"]
            /\ UNCHANGED <<chans, chan>>
    /\ UNCHANGED <<pipelineVars, mainVars, getVars, consumerVars, corrVars, countsVars, brokerUp, flips, opened, conn, attempt,
                   retry_delay, slept, health>>

\* await _channel.set_qos(prefetch_count=10) completes, or raises.
SetQos(c) ==
    /\ cpc[c] = "qos"
    /\ cpc' = [cpc EXCEPT ![c] = IF brokerUp THEN "done" ELSE "failed"]
    /\ UNCHANGED <<pipelineVars, mainVars, getVars, consumerVars, corrVars, countsVars, brokerUp, flips, opened, conn, chans, chan,
                   attempt, retry_delay, slept, health>>

\* check_rabbitmq_health: False when no connection is cached; otherwise a test
\* channel is opened and closed on the cached connection.
check_rabbitmq_health == conn # 0 /\ brokerUp

Connected(b) == IF b THEN "connected" ELSE "disconnected"

\* GET /health, served once the start-up has ended. SELECT 1 against the store
\* answers or raises SQLAlchemyError.
Health ==
    /\ cpc["startup"] \in {"done", "failed"}
    /\ \E dbUp \in BOOLEAN :
          health' = [db |-> dbUp, broker |-> brokerUp,
                     database_status |-> Connected(dbUp),
                     queue_status |-> Connected(check_rabbitmq_health),
                     status |-> IF dbUp /\ check_rabbitmq_health THEN "healthy"
                                                                 ELSE "unhealthy"]
    /\ UNCHANGED <<pipelineVars, mainVars, getVars, consumerVars, corrVars, countsVars, brokerUp, flips, opened, conn, chans, chan,
                   cpc, attempt, retry_delay, slept>>

CallerStep(c) ==
    CallBroker(c) \/ Connect(c) \/ Sleep(c) \/ OpenChannel(c) \/ SetQos(c)

NextBroker ==
    \/ BrokerFlip
    \/ \E c \in Callers : CallBroker(c)
    \/ \E c \in Callers : Connect(c)
    \/ \E c \in Callers : Sleep(c)
    \/ \E c \in Callers : OpenChannel(c)
    \/ \E c \in Callers : SetQos(c)
    \/ Health

SpecBroker == Init /\ [][NextBroker]_vars

\* Every coroutine that was started keeps being scheduled by the event loop.
SpecBrokerLive ==
    Init /\ [][NextBroker]_vars /\ \A c \in Callers : WF_vars(CallerStep(c))

\* ---------------------------------------------------------------- worker start-up and consumption
\* prefetch_count set by get_rabbitmq_channel, then by consume_messages.
ChannelPrefetch == 10
ConsumerPrefetch == 1

SetQosIgnored(p, n) == p
\* await channel.set_qos(prefetch_count=n): the channel's prefetch becomes n.
set_qos(p, n) == n

AfterValidationIgnored(ok) == "validated"
\* main: if not validate_qiskit(): sys.exit(1), before QueueConsumer is created.
AfterValidation(ok) == IF ok THEN "validated" ELSE "exited"

\* validate_qiskit returns True, or False when the import, qasm3.loads or
\* AerSimulator() raises.
Validate(w) ==
    /\ wstart[w] = "init"
    /\ \E ok \in BOOLEAN :
          /\ valid' = [valid EXCEPT ![w] = IF ok THEN "ok" ELSE "failed"]
          /\ wstart' = [wstart EXCEPT ![w] = AfterValidation(ok)]
          /\ exitcode' = [exitcode EXCEPT ![w] =
                             IF AfterValidation(ok) = "exited" THEN 1 ELSE -1]
    /\ UNCHANGED <<pipelineVars, mainVars, getVars, brokerVars, corrVars, countsVars, prefetch, inbox, handled>>

\* consume_messages: channel = await get_rabbitmq_channel() (which sets
\* prefetch_count=10 on the new channel), then declare_queue.
OpenConsumer(w) ==
    /\ wstart[w] = "validated"
    /\ wstart' = [wstart EXCEPT ![w] = "channel"]
    /\ prefetch' = [prefetch EXCEPT ![w] = set_qos(@, ChannelPrefetch)]
    /\ UNCHANGED <<pipelineVars, mainVars, getVars, brokerVars, corrVars, countsVars, valid, exitcode, inbox, handled>>

\* consume_messages: await channel.set_qos(prefetch_count=1).
ConsumerQos(w) ==
    /\ wstart[w] = "channel"
    /\ wstart' = [wstart EXCEPT ![w] = "qos"]
    /\ prefetch' = [prefetch EXCEPT ![w] = set_qos(@, ConsumerPrefetch)]
    /\ UNCHANGED <<pipelineVars, mainVars, getVars, brokerVars, corrVars, countsVars, valid, exitcode, inbox, handled>>

\* consume_messages: async with queue.iterator(): the consumer is registered.
StartIterator(w) ==
    /\ wstart[w] = "qos"
    /\ wstart' = [wstart EXCEPT ![w] = "consuming"]
    /\ UNCHANGED <<pipelineVars, mainVars, getVars, brokerVars, corrVars, countsVars, valid, exitcode, prefetch, inbox,
                   handled>>

\* Deliveries of worker w the broker holds as unacknowledged.
Unacked(w) == Len(inbox[w]) + (IF unacked[w] THEN 1 ELSE 0)

\* The broker pushes the next ready message to a registered consumer whose
\* unacknowledged deliveries are fewer than its channel's prefetch_count.
Push(w) ==
    /\ wstart[w] = "consuming"
    /\ queue # <<>>
    /\ Unacked(w) < prefetch[w]
    /\ inbox' = [inbox EXCEPT ![w] = Append(@, Head(queue))]
    /\ queue' = Tail(queue)
    /\ UNCHANGED <<storeVars, httpVars, workerVars, faults, redeliveries, foreign,
                   request, ghostVars, mainVars, getVars, brokerVars, corrVars, countsVars, wstart, valid, exitcode,
                   prefetch, handled>>

\* async for message in queue_iter: the loop takes the next pushed delivery and
\* enters message.process() and the callback.
Take(w) ==
    /\ wstart[w] = "consuming"
    /\ wpc[w] = "idle"
    /\ inbox[w] # <<>>
    /\ inbox' = [inbox EXCEPT ![w] = Tail(@)]
    /\ handled' = [handled EXCEPT ![w] = @ + 1]
    /\ wpc' = [wpc EXCEPT ![w] = "get_task"]
    /\ held' = [held EXCEPT ![w] = Head(inbox[w])]
    /\ unacked' = [unacked EXCEPT ![w] = TRUE]
    /\ stale' = [stale EXCEPT ![w] = get_task(Head(inbox[w]).task_id) \in AlreadyProcessed]
    /\ UNCHANGED <<storeVars, queue, httpVars, outcome, claimed, faults, redeliveries, foreign,
                   request, ghostVars, mainVars, getVars, brokerVars, corrVars, countsVars, wstart, valid, exitcode,
                   prefetch>>

\* process_task on the delivery taken, with store and broker answering.
Process ==
    /\ \/ \E r \in Requests : SubmitCreate(r)
       \/ \E r \in Requests : SubmitPublish(r)
       \/ \E w \in WorkerIds : GetTask(w)
       \/ \E w \in WorkerIds : Claim(w)
       \/ \E w \in WorkerIds : Execute(w)
       \/ \E w \in WorkerIds : Commit(w)
       \/ \E w \in WorkerIds : Handler(w)
       \/ \E w \in WorkerIds : HandlerPending(w)
    /\ Calm'

NextConsumer ==
    \/ Process
    \/ \E w \in WorkerIds : Validate(w)
    \/ \E w \in WorkerIds : OpenConsumer(w)
    \/ \E w \in WorkerIds : ConsumerQos(w)
    \/ \E w \in WorkerIds : StartIterator(w)
    \/ \E w \in WorkerIds : Push(w)
    \/ \E w \in WorkerIds : Take(w)

SpecConsumer == Init /\ [][NextConsumer]_vars

\* ---------------------------------------------------------------- correlation id
\* Header values a client sends; str(uuid.uuid4()) results, all different.
HeaderValues == {"", "h1", "h2"}
Uuid4s == <<"u1", "u2", "u3", "u4">>

\* How "from api.middleware import get_correlation_id" resolves inside
\* publisher.py while app.py and routes.py import the module as "middleware":
\* the import fails, or it loads a second module object with a
\* correlation_id_var of its own, which no request ever set.
Resolutions == {"import_error", "second_module"}

\* _get_correlation_id: the value of the context variable of the module it
\* imported when that is non-empty, otherwise a new UUID ("" here: the caller
\* draws one).
publisher_get_correlation_id(res) ==
    IF res = "import_error" THEN "" ELSE CtxDefault

\* CorrelationIDMiddleware.dispatch up to call_next: the header value or a new
\* UUID, stored in the context variable of the request's own context.
Dispatch(r) ==
    /\ cpos[r] = "new"
    /\ \E h \in {<<>>} \cup {<<v>> : v \in HeaderValues} :
          /\ hdr' = [hdr EXCEPT ![r] = h]
          /\ IF h # <<>> /\ h[1] # ""
             THEN /\ cid' = [cid EXCEPT ![r] = h[1]]
                  /\ ctx' = [ctx EXCEPT ![r] = h[1]]
                  /\ UNCHANGED fresh
             ELSE /\ fresh < Len(Uuid4s)
                  /\ fresh' = fresh + 1
                  /\ cid' = [cid EXCEPT ![r] = Uuid4s[fresh + 1]]
                  /\ ctx' = [ctx EXCEPT ![r] = Uuid4s[fresh + 1]]
    /\ cpos' = [cpos EXCEPT ![r] = "route"]
    /\ UNCHANGED <<pipelineVars, mainVars, getVars, brokerVars, consumerVars, countsVars, bodycid, msgcid,
                   resphdr>>

\* routes.py submit_task: correlation_id = get_correlation_id(), used in the
\* body of the response whatever its status.
RouteCid(r) ==
    /\ cpos[r] = "route"
    /\ bodycid' = [bodycid EXCEPT ![r] = ctx[r]]
    /\ cpos' = [cpos EXCEPT ![r] = "publish"]
    /\ UNCHANGED <<pipelineVars, mainVars, getVars, brokerVars, consumerVars, countsVars, hdr, cid, ctx,
                   msgcid, resphdr, fresh>>

\* publisher.py publish_task_message: correlation_id = _get_correlation_id(),
\* set as the message's correlation_id property.
PublishCid(r) ==
    /\ cpos[r] = "publish"
    /\ \E res \in Resolutions :
          LET c == publisher_get_correlation_id(res) IN
            IF c # ""
            THEN msgcid' = [msgcid EXCEPT ![r] = c] /\ UNCHANGED fresh
            ELSE /\ fresh < Len(Uuid4s)
                 /\ fresh' = fresh + 1
                 /\ msgcid' = [msgcid EXCEPT ![r] = Uuid4s[fresh + 1]]
    /\ cpos' = [cpos EXCEPT ![r] = "respond"]
    /\ UNCHANGED <<pipelineVars, mainVars, getVars, brokerVars, consumerVars, countsVars, hdr, cid, ctx,
                   bodycid, resphdr>>

\* dispatch after call_next: response.headers["X-Correlation-ID"] = correlation_id.
Respond(r) ==
    /\ cpos[r] = "respond"
    /\ resphdr' = [resphdr EXCEPT ![r] = cid[r]]
    /\ cpos' = [cpos EXCEPT ![r] = "done"]
    /\ UNCHANGED <<pipelineVars, mainVars, getVars, brokerVars, consumerVars, countsVars, hdr, cid, ctx,
                   bodycid, msgcid, fresh>>

NextCorr ==
    \/ \E r \in Requests : Dispatch(r)
    \/ \E r \in Requests : RouteCid(r)
    \/ \E r \in Requests : PublishCid(r)
    \/ \E r \in Requests : Respond(r)

SpecCorr == Init /\ [][NextCorr]_vars

\* ---------------------------------------------------------------- format_counts
\* What result.get_counts() can hand to the formatter, and objects of the other
\* shapes format_counts tests for: keys "", "0", "1", "01", "0 1" (two classical
\* registers), "2", a key that is no str; values 0, 2, -1, one that is no int.
Keys ==
    {Key(TRUE, <<>>), Key(TRUE, <<"0">>), Key(TRUE, <<"1">>), Key(TRUE, <<"0", "1">>),
     Key(TRUE, <<"0", " ", "1">>), Key(TRUE, <<"2">>), Key(FALSE, <<>>)}
Values == {Value(TRUE, 0), Value(TRUE, 2), Value(TRUE, -1), Value(FALSE, 0)}
Items == [key : Keys, value : Values]
RECURSIVE SeqsUpTo(_, _)
SeqsUpTo(S, n) ==
    IF n = 0 THEN {<<>>}
    ELSE LET shorter == SeqsUpTo(S, n - 1) IN
           shorter \cup {Append(s, x) : s \in {q \in shorter : Len(q) = n - 1}, x \in S}
CountsInputs ==
    {Counts(TRUE, items) : items \in SeqsUpTo(Items, MaxEntries)} \cup {NoCounts}

FormatCountsRaisesNoSign(c) ==
    \/ ~c.is_dict
    \/ \E i \in 1..Len(c.items) :
          \/ ~c.items[i].key.is_str
          \/ \E j \in 1..Len(c.items[i].key.chars) :
                c.items[i].key.chars[j] \notin {"0", "1"}
          \/ ~c.items[i].value.is_int
\* format_counts raises ValueError: counts is no dict, a key is no str or has a
\* character outside '01', a value is no int or is negative.
format_counts_raises(c) ==
    \/ ~c.is_dict
    \/ \E i \in 1..Len(c.items) :
          \/ ~c.items[i].key.is_str
          \/ \E j \in 1..Len(c.items[i].key.chars) :
                c.items[i].key.chars[j] \notin {"0", "1"}
          \/ ~c.items[i].value.is_int
          \/ c.items[i].value.n < 0
\* Otherwise it returns counts unchanged.
format_counts(c) == c

\* counts = await loop.run_in_executor(None, executor.execute, ...)
ExecuteCounts ==
    /\ fpc = "execute"
    /\ raw' \in CountsInputs
    /\ fpc' = "format"
    /\ UNCHANGED <<pipelineVars, mainVars, getVars, brokerVars, consumerVars, corrVars, fstatus,
                   fresult>>

\* result = formatter.format_counts(counts), then the transition to COMPLETED
\* with result=result; a ValueError is caught by except Exception, which
\* transitions to FAILED.
CommitCounts ==
    /\ fpc = "format"
    /\ IF format_counts_raises(raw)
       THEN fstatus' = FAILED /\ fresult' = NULL
       ELSE fstatus' = COMPLETED /\ fresult' = <<format_counts(raw)>>
    /\ fpc' = "done"
    /\ UNCHANGED <<pipelineVars, mainVars, getVars, brokerVars, consumerVars, corrVars, raw>>

\* The worker takes the next task.
NextTask ==
    /\ fpc = "done"
    /\ fpc' = "execute"
    /\ raw' = NoCounts
    /\ fstatus' = PROCESSING
    /\ fresult' = NULL
    /\ UNCHANGED <<pipelineVars, mainVars, getVars, brokerVars, consumerVars, corrVars>>

NextCounts == ExecuteCounts \/ CommitCounts \/ NextTask

SpecCounts == Init /\ [][NextCounts]_vars

\* ---------------------------------------------------------------- worker shutdown
\* One worker process from QueueConsumer(callback=process_task) to its exit: the
\* consume task, the wait of main, and the finally clause.
ConsumeDone == {"raised", "cancelled", "cancel_raised"}

Released(what, raised) == [what |-> what, raised |-> raised]

\* The consume task is over: nothing is consumed from here on.
EndConsume(w, how) ==
    /\ ctask' = [ctask EXCEPT ![w] = how]
    /\ released' = [released EXCEPT ![w] = Append(@, Released("consume", how # "cancelled"))]

\* main: consume_task = asyncio.create_task(consumer.consume_messages()), then
\* asyncio.wait on it and on the shutdown event.
StartConsume(w) ==
    /\ mpc[w] = "start"
    /\ mpc' = [mpc EXCEPT ![w] = "wait"]
    /\ ctask' = [ctask EXCEPT ![w] = "connect"]
    /\ UNCHANGED <<pipelineVars, getVars, brokerVars, consumerVars, corrVars, countsVars,
                   signalled, wconn, wchan, dbopen, released, mexit>>

\* consume_messages -> get_rabbitmq_channel -> get_rabbitmq_connection: the
\* connection is cached when connect_robust answers; after max_retries failures
\* ConnectionError is raised, wrapped into RuntimeError, logged as fatal by
\* consume_messages and raised again.
ConsumeConnect(w) ==
    /\ ctask[w] = "connect"
    /\ \/ /\ wconn' = [wconn EXCEPT ![w] = Opened]
          /\ ctask' = [ctask EXCEPT ![w] = "channel"]
          /\ UNCHANGED released
       \/ /\ EndConsume(w, "raised")
          /\ UNCHANGED wconn
    /\ UNCHANGED <<pipelineVars, getVars, brokerVars, consumerVars, corrVars, countsVars,
                   mpc, signalled, wchan, dbopen, mexit>>

\* get_rabbitmq_channel: _channel = await connection.channel(), then
\* set_qos(prefetch_count=10); either may raise, the second with _channel
\* already assigned.
ConsumeChannel(w) ==
    /\ ctask[w] = "channel"
    /\ \/ /\ EndConsume(w, "raised")
          /\ UNCHANGED wchan
       \/ /\ EndConsume(w, "raised")
          /\ wchan' = [wchan EXCEPT ![w] = Opened]
       \/ /\ wchan' = [wchan EXCEPT ![w] = Opened]
          /\ ctask' = [ctask EXCEPT ![w] = "setup"]
          /\ UNCHANGED released
    /\ UNCHANGED <<pipelineVars, getVars, brokerVars, consumerVars, corrVars, countsVars,
                   mpc, signalled, wconn, dbopen, mexit>>

\* What a broker fault leaves of connection and channel: both open, the channel
\* closed by the broker, or the connection (and with it the channel) lost.
AfterFault(w) ==
    \E c \in BOOLEAN, ch \in BOOLEAN :
       /\ ch => c
       /\ wconn' = [wconn EXCEPT ![w] = [ref |-> @.ref, open |-> @.open /\ c]]
       /\ wchan' = [wchan EXCEPT ![w] = [ref |-> @.ref, open |-> @.open /\ ch]]

\* consume_messages: declare_queue, set_qos(prefetch_count=1) and
\* queue.iterator(); an exception of any of them is logged as fatal and raised.
ConsumeSetup(w) ==
    /\ ctask[w] = "setup"
    /\ \/ /\ ctask' = [ctask EXCEPT ![w] = "consuming"]
          /\ UNCHANGED <<released, wconn, wchan>>
       \/ /\ EndConsume(w, "raised")
          /\ AfterFault(w)
    /\ UNCHANGED <<pipelineVars, getVars, brokerVars, consumerVars, corrVars, countsVars,
                   mpc, signalled, dbopen, mexit>>

\* consume_messages while consuming: the iterator or the acknowledgement of
\* message.process() raises; logged as fatal and raised (consumer.py 128-134).
ConsumeFault(w) ==
    /\ ctask[w] = "consuming"
    /\ EndConsume(w, "raised")
    /\ AfterFault(w)
    /\ UNCHANGED <<pipelineVars, getVars, brokerVars, consumerVars, corrVars, countsVars,
                   mpc, signalled, dbopen, mexit>>

\* handle_shutdown_signal: SIGINT or SIGTERM sets the shutdown event.
Signal(w) ==
    /\ mexit[w] = -1
    /\ ~signalled[w]
    /\ signalled' = [signalled EXCEPT ![w] = TRUE]
    /\ UNCHANGED <<pipelineVars, getVars, brokerVars, consumerVars, corrVars, countsVars,
                   mpc, ctask, wconn, wchan, dbopen, released, mexit>>

WaitReturnsOnSignal(w) == signalled[w]
\* asyncio.wait(..., return_when=FIRST_COMPLETED) over the consume task and the
\* wait for the shutdown event.
WaitReturns(w) == ctask[w] \in ConsumeDone \/ signalled[w]

\* main after the wait: when the event is set and the consume task is not done
\* it is cancelled and awaited (leaving the iterator may raise instead of
\* CancelledError); then the finally clause begins.
MainWake(w) ==
    /\ mpc[w] = "wait"
    /\ WaitReturns(w)
    /\ IF signalled[w] /\ ctask[w] \notin ConsumeDone
       THEN \E how \in (IF ctask[w] = "consuming" THEN {"cancelled", "cancel_raised"}
                        ELSE {"cancelled"}) : EndConsume(w, how)
       ELSE UNCHANGED <<ctask, released>>
    /\ mpc' = [mpc EXCEPT ![w] = "close_channel"]
    /\ UNCHANGED <<pipelineVars, getVars, brokerVars, consumerVars, corrVars, countsVars,
                   signalled, wconn, wchan, dbopen, mexit>>

ClosedKeepsRefOnError(obj, raised) == [ref |-> obj.ref /\ raised, open |-> obj.open /\ raised]
\* try: await obj.close() / except Exception: warning / finally: the global is
\* set to None. An object whose close raised may still be open.
Closed(obj, raised) == [ref |-> FALSE, open |-> obj.open /\ raised]

\* cleanup_rabbitmq -> close_rabbitmq_connection -> close_rabbitmq_channel.
CloseChannel(w) ==
    /\ mpc[w] = "close_channel"
    /\ IF wchan[w].ref /\ wchan[w].open
       THEN \E raised \in BOOLEAN :
               /\ wchan' = [wchan EXCEPT ![w] = Closed(@, raised)]
               /\ released' = [released EXCEPT ![w] = Append(@, Released("channel", raised))]
       ELSE /\ wchan' = [wchan EXCEPT ![w] = Closed(@, FALSE)]
            /\ UNCHANGED released
    /\ mpc' = [mpc EXCEPT ![w] = "close_connection"]
    /\ UNCHANGED <<pipelineVars, getVars, brokerVars, consumerVars, corrVars, countsVars,
                   ctask, signalled, wconn, dbopen, mexit>>

\* close_rabbitmq_connection, after the channel.
CloseConnection(w) ==
    /\ mpc[w] = "close_connection"
    /\ IF wconn[w].ref /\ wconn[w].open
       THEN \E raised \in BOOLEAN :
               /\ wconn' = [wconn EXCEPT ![w] = Closed(@, raised)]
               /\ released' = [released EXCEPT ![w] = Append(@, Released("connection", raised))]
       ELSE /\ wconn' = [wconn EXCEPT ![w] = Closed(@, FALSE)]
            /\ UNCHANGED released
    /\ mpc' = [mpc EXCEPT ![w] = "close_db"]
    /\ UNCHANGED <<pipelineVars, getVars, brokerVars, consumerVars, corrVars, countsVars,
                   ctask, signalled, wchan, dbopen, mexit>>

\* Exit status of asyncio.run(main()): an exception leaves main only when the
\* awaited, cancelled consume task raised one; the exception of a consume task
\* that ended by itself is never retrieved.
ExitStatus(how) == IF how = "cancel_raised" THEN 1 ELSE 0

\* main: close_db() (engine.dispose()) in its own try/except, then the process ends.
CloseDb(w) ==
    /\ mpc[w] = "close_db"
    /\ \E raised \in BOOLEAN :
          /\ dbopen' = [dbopen EXCEPT ![w] = raised]
          /\ released' = [released EXCEPT ![w] = Append(@, Released("store", raised))]
    /\ mpc' = [mpc EXCEPT ![w] = "exited"]
    /\ mexit' = [mexit EXCEPT ![w] = ExitStatus(ctask[w])]
    /\ UNCHANGED <<pipelineVars, getVars, brokerVars, consumerVars, corrVars, countsVars,
                   ctask, signalled, wconn, wchan>>

\* The steps of main itself.
MainStep(w) ==
    \/ StartConsume(w)
    \/ MainWake(w)
    \/ CloseChannel(w)
    \/ CloseConnection(w)
    \/ CloseDb(w)

NextMain ==
    \/ \E w \in WorkerIds : StartConsume(w)
    \/ \E w \in WorkerIds : ConsumeConnect(w)
    \/ \E w \in WorkerIds : ConsumeChannel(w)
    \/ \E w \in WorkerIds : ConsumeSetup(w)
    \/ \E w \in WorkerIds : ConsumeFault(w)
    \/ \E w \in WorkerIds : Signal(w)
    \/ \E w \in WorkerIds : MainWake(w)
    \/ \E w \in WorkerIds : CloseChannel(w)
    \/ \E w \in WorkerIds : CloseConnection(w)
    \/ \E w \in WorkerIds : CloseDb(w)

SpecMain == Init /\ [][NextMain]_vars

\* The event loop runs main whenever it can go on.
SpecMainLive == SpecMain /\ \A w \in WorkerIds : WF_vars(MainStep(w))

\* ---------------------------------------------------------------- properties
StatusesOf(t) == [i \in 1..Len(history[t]) |-> history[t][i].status]

\* routes.py sorts the history by transitioned_at (a stable sort) before it is
\* returned: the latest entry is the last one carrying the greatest timestamp.
LatestEntry(h) ==
    h[CHOOSE i \in 1..Len(h) :
        \A j \in 1..Len(h) :
           \/ h[j].transitioned_at < h[i].transitioned_at
           \/ (h[j].transitioned_at = h[i].transitioned_at /\ j <= i)]

\* C1 (as claimed): at most one claim of a task returns true, and whenever a
\* worker's claim returns false another worker's claim of that task returned true.
C1_ExactlyOneClaimWins ==
    [][/\ \A t \in TaskIds : claimTrue'[t] <= 1
       /\ \A w \in WorkerIds :
            (wpc[w] = "claim" /\ wpc'[w] = "idle") => claimTrue[held[w].task_id] = 1]_vars

\* C2: every task's history follows the transition graph, and nothing follows a
\* COMPLETED or FAILED entry.
TransitionGraph ==
    {<<PENDING, PROCESSING>>, <<PROCESSING, COMPLETED>>, <<PROCESSING, FAILED>>,
     <<PENDING, FAILED>>}

C2_HistoryFollowsGraph ==
    \A t \in DOMAIN history :
       \A i \in 1..(Len(history[t]) - 1) :
          /\ <<history[t][i].status, history[t][i + 1].status>> \in TransitionGraph
          /\ history[t][i].status \notin Terminal

C2_Witness ==
    \E t \in DOMAIN history :
       /\ StatusesOf(t) = <<PENDING, PROCESSING, FAILED>>
       /\ faults > 0
       /\ redeliveries > 0

\* C3: current_status equals the status of the task's latest history entry.
C3_StatusIsLatestEntry ==
    \A t \in DOMAIN tasks :
       /\ t \in DOMAIN history
       /\ LatestEntry(history[t]).status = tasks[t].current_status

C3_Witness ==
    \E t \in DOMAIN tasks :
       /\ tasks[t].current_status = COMPLETED
       /\ Len(history[t]) = 3

\* C4: result is set iff COMPLETED, error_message iff FAILED, completed_at iff
\* the status is terminal.
C4_ColumnsMatchStatus ==
    \A t \in DOMAIN tasks :
       /\ tasks[t].result # NULL <=> tasks[t].current_status = COMPLETED
       /\ tasks[t].error_message # NULL <=> tasks[t].current_status = FAILED
       /\ tasks[t].completed_at # NULL <=> tasks[t].current_status \in Terminal

C4_Witness ==
    \E t, u \in DOMAIN tasks :
       /\ tasks[t].current_status = COMPLETED
       /\ tasks[u].current_status = FAILED

\* C5 (as claimed): every step a worker takes while handling a message whose task
\* had already left PENDING at delivery leaves rows and history unchanged, never
\* reaches the simulator, and ends with the delivery acknowledged, not requeued.
C5_RedeliveryIsNoOp ==
    [][\A w \in WorkerIds :
         (stale[w] /\ wpc'[w] # wpc[w]) =>
            /\ tasks' = tasks
            /\ history' = history
            /\ wpc'[w] \notin {"execute", "commit"}
            /\ (wpc'[w] = "idle" => queue' = queue)]_vars

\* C6: a message submit_task published, in the queue or held by a worker,
\* references a committed task.
C6_PersistBeforePublish ==
    /\ \A i \in 1..Len(queue) :
          queue[i].task_id \in Requests => queue[i].task_id \in DOMAIN tasks
    /\ \A w \in WorkerIds :
          held[w].task_id \in Requests => held[w].task_id \in DOMAIN tasks

C6_Witness ==
    /\ queue # <<>>
    /\ \E w \in WorkerIds : wpc[w] = "get_task" /\ held[w].task_id \in DOMAIN tasks

\* C7 (as claimed): a submission whose publish failed is answered 503.
C7_PublishFailureIs503 ==
    \A r \in Requests :
       (published[r] = "failed" /\ response[r] # 0) => response[r] = 503

\* C8: after a failed publish the task stays committed, PENDING, with exactly its
\* initial history entry.
C8_PublishFailureKeepsTask ==
    \A r \in Requests :
       published[r] = "failed" =>
          /\ r \in DOMAIN tasks
          /\ tasks[r].current_status = PENDING
          /\ StatusesOf(r) = <<PENDING>>

C8_Witness ==
    \E r \in Requests : published[r] = "failed" /\ rpc[r] = Done

\* C9: a finished submission either has its task row or was answered with an error.
C9_RowOrError ==
    \A r \in Requests :
       rpc[r] = Done => (r \in DOMAIN tasks \/ response[r] >= 400)

C9_Witness ==
    \E r, q \in Requests :
       /\ rpc[r] = Done /\ r \notin DOMAIN tasks /\ response[r] = 503
       /\ rpc[q] = Done /\ q \in DOMAIN tasks /\ response[q] = 200

\* C10: the first history entry of every task is PENDING, stamped submitted_at,
\* and exists as soon as the row does.
C10_InitialEntry ==
    \A t \in DOMAIN tasks :
       /\ t \in DOMAIN history
       /\ Len(history[t]) >= 1
       /\ history[t][1].status = PENDING
       /\ history[t][1].transitioned_at = tasks[t].submitted_at

C10_Witness ==
    \E t \in DOMAIN tasks :
       /\ Len(history[t]) >= 2
       /\ history[t][2].transitioned_at > tasks[t].submitted_at

\* C11 (as claimed): a worker that is stopped while it executes a task it claimed,
\* or while the commit of that execution is still to come, leaves the task in
\* COMPLETED or FAILED, never in PROCESSING.
C11_ShutdownCommitsInFlight ==
    [][\A w \in WorkerIds :
         (wpc[w] \in {"execute", "commit"} /\ wpc'[w] = "stopped") =>
            tasks'[held[w].task_id].current_status \in Terminal]_vars

\* A message process_task cannot act on: no JSON, or no usable task_id.
Malformed(m) == ~m.valid_json \/ ~HasTaskId(m)

MalformedInQueue == Cardinality({i \in 1..Len(queue) : Malformed(queue[i])})

\* C12 (as claimed): the delivery of a malformed message is acknowledged: the
\* worker that took it is back in its loop, the message gone.
C12_MalformedAcknowledged ==
    [][malformedSeen' # malformedSeen =>
          /\ queue' = Tail(queue)
          /\ wpc' = wpc]_vars

\* What does hold of a malformed message: it is dropped at its first delivery and
\* never delivered again, acknowledged when it lacks a task_id and rejected
\* without requeue, the worker's loop ending, when it is no JSON; nothing is
\* written to the store for it.
MalformedDropped ==
    [][malformedSeen' # malformedSeen =>
          /\ queue' = Tail(queue)
          /\ held' = held /\ unacked' = unacked
          /\ tasks' = tasks /\ history' = history
          /\ malformedSeen' + MalformedInQueue' <= foreign
          /\ \A w \in WorkerIds :
                wpc'[w] # wpc[w] => (~Head(queue).valid_json /\ wpc'[w] = "stopped")]_vars

\* C13 (as claimed): consuming a message never ends a worker's loop: a worker
\* stops only by the signal, which takes nothing from the queue.
C13_TaskFailureKeepsLoop ==
    [][\A w \in WorkerIds :
         (wpc[w] # "stopped" /\ wpc'[w] = "stopped") => queue' = queue]_vars

\* C14 (as claimed): when the handling of a message in which a store operation
\* raised comes to its end, the delivery is negatively acknowledged: the message
\* is back on the queue for redelivery.
C14_StoreFaultRequeues ==
    [][\A w \in WorkerIds :
         (outcome[w] = "store_fault" /\ wpc'[w] = "idle") =>
            /\ Len(queue') = Len(queue) + 1
            /\ \E i \in 1..Len(queue') : queue'[i] = held[w]]_vars

\* The category strings of the error classification.
Categories == {"Circuit parse error", "Execution error", "Unexpected error"}

CategoryOf(o) ==
    CASE o = "QASM3ImporterError" -> "Circuit parse error"
      [] o \in {"AerError", "MemoryError"} -> "Execution error"
      [] OTHER -> "Unexpected error"

C16_FailedIsClassified ==
    \A t \in DOMAIN tasks :
       tasks[t].current_status = FAILED =>
          /\ tasks[t].error_message # NULL
          /\ tasks[t].error_message[1] \in Categories

\* The task went from PENDING through PROCESSING to a terminal status, in
\* chronological order.
Finished(t) ==
    /\ t \in DOMAIN tasks
    /\ tasks[t].current_status \in Terminal
    /\ StatusesOf(t) = <<PENDING, PROCESSING, tasks[t].current_status>>
    /\ \A i \in 1..(Len(history[t]) - 1) :
          history[t][i].transitioned_at <= history[t][i + 1].transitioned_at
    /\ tasks[t].current_status = COMPLETED <=> tasks[t].result = <<"counts">>

\* C17 (as claimed): with store and broker available and a worker running, every
\* task whose submission was answered with success is eventually finished.
C17_EveryTaskFinishes ==
    \A t \in TaskIds : (response[t] = 200) ~> Finished(t)

\* routes.py get_task_status: sorted(task.status_history, key=transitioned_at), a
\* stable sort of the entries as loaded.
InsertByTime(e, s) ==
    LET k == Cardinality({i \in 1..Len(s) : s[i].transitioned_at <= e.transitioned_at})
    IN SubSeq(s, 1, k) \o <<e>> \o SubSeq(s, k + 1, Len(s))

RECURSIVE SortedByTime(_)
SortedByTime(h) ==
    IF h = <<>> THEN <<>>
    ELSE InsertByTime(h[Len(h)], SortedByTime(SubSeq(h, 1, Len(h) - 1)))

IsPrefix(s, u) == Len(s) <= Len(u) /\ SubSeq(u, 1, Len(s)) = s

\* C18: no step modifies or removes a committed history entry: the stored history
\* and the history a query returns both keep the earlier one as a prefix, and
\* the history of a terminal task no longer changes.
C18_HistoryAppendOnly ==
    [][\A t \in DOMAIN history :
         /\ t \in DOMAIN history'
         /\ IsPrefix(history[t], history'[t])
         /\ history'[t] # history[t] =>
               IsPrefix(SortedByTime(history[t]), SortedByTime(history'[t]))
         /\ tasks[t].current_status \in Terminal => history'[t] = history[t]]_vars

C18_Witness ==
    \E t \in DOMAIN history :
       /\ tasks[t].current_status \in Terminal
       /\ Len(history[t]) = 3
       /\ \E w \in WorkerIds : held[w].task_id = t /\ wpc[w] = "handler"

Rejected(b) ==
    \/ b.circuit = <<>>
    \/ b.circuit = <<"">>
    \/ b.shots.kind = "int" /\ (b.shots.n < 1 \/ b.shots.n > 100000)

\* C20: such a request reaches neither store nor broker and is answered 400, and
\* every task created has shots within [1, 100000], 1024 when shots was omitted.
C20_ValidationAtBoundary ==
    /\ \A r \in Requests :
          Rejected(request[r]) =>
             /\ r \notin DOMAIN tasks
             /\ r \notin DOMAIN history
             /\ published[r] = "none"
             /\ \A i \in 1..Len(queue) : queue[i].task_id # r
             /\ response[r] \in {0, 400}
             /\ rpc[r] = Done => response[r] = 400
    /\ \A t \in DOMAIN tasks :
          /\ tasks[t].shots >= 1
          /\ tasks[t].shots <= 100000
          /\ request[t].shots.kind = "omitted" => tasks[t].shots = 1024

C20_Witness ==
    \E r, q \in Requests :
       /\ Rejected(request[r]) /\ rpc[r] = Done
       /\ request[r].shots = Int_(ShotsMax + 1)
       /\ q \in DOMAIN tasks /\ tasks[q].shots = ShotsMax /\ published[q] = "ok"

\* C21: a GET with the task_id a successful submit returned is never answered
\* 404, and whenever the store answers the read it is answered 200 with that
\* task_id, the task's current status and a non-empty history.
C21_SubmittedIsRetrievable ==
    [][\A r \in Requests :
         (response[r] = 200 /\ GetStatus(Str(r))) =>
            /\ got'.code \in {200, 503}
            /\ got'.code = 200 =>
                  /\ got'.task_id = Str(r)
                  /\ got'.status = tasks[r].current_status
                  /\ got'.entries >= 1]_vars

C21_Witness ==
    \E r \in Requests :
       /\ response[r] = 200
       /\ got.id = Str(r) /\ got.code = 200 /\ got.status = COMPLETED /\ got.entries = 3

\* C22 (as claimed): a task_id not of UUID-v4 form is answered 400 and the store
\* is not read; a well-formed one is looked up as supplied and answered 404
\* when no row carries it, 503 when the read fails.
C22_GetErrorCodes ==
    [][\A x \in ClientIds :
         GetStatus(x) =>
            /\ ~IsUuid4Form(x) => got'.code = 400 /\ got'.looked = NoId
            /\ IsUuid4Form(x) =>
                  /\ got'.code \in {200, 404, 503}
                  /\ got'.code = 404 => \A t \in DOMAIN tasks : Str(t) # x
                  /\ got'.code = 200 => \E t \in DOMAIN tasks : Str(t) = x
            /\ got'.looked # NoId => got'.looked = x]_vars

\* C23 (as claimed): /health answers "healthy" exactly when store and broker both
\* respond at the probe, and each backend's status is "connected" exactly when
\* that backend responds, also when the broker was down during start-up.
C23_HealthReflectsBackends ==
    health.status # "none" =>
       /\ health.status = "healthy" <=> (health.db /\ health.broker)
       /\ health.database_status = "connected" <=> health.db
       /\ health.queue_status = "connected" <=> health.broker

\* C24: the retry loop makes at most five attempts, sleeps 1, 2, 4, 8 seconds
\* between them, stops at the first success, raises after the fifth failure
\* without another sleep, and always comes to an end.
C24_RetrySchedule ==
    /\ [](\A c \in Callers :
            /\ attempt[c] <= max_retries
            /\ Len(slept[c]) = (IF attempt[c] = 0 THEN 0 ELSE attempt[c] - 1)
            /\ \A i \in 1..Len(slept[c]) : slept[c][i] = <<1, 2, 4, 8>>[i]
            /\ cpc[c] = "sleep" => attempt[c] < max_retries)
    /\ [][\A c \in Callers :
            /\ (Connect(c) /\ brokerUp) => cpc'[c] \in {"done", "channel"}
            /\ (Connect(c) /\ ~brokerUp /\ attempt[c] = max_retries) =>
                   cpc'[c] = "failed" /\ slept'[c] = <<1, 2, 4, 8>>]_vars
    /\ \A c \in Callers : (cpc[c] = "connect") ~> (cpc[c] \in {"done", "failed"})

C24_Witness ==
    /\ cpc["startup"] = "failed" /\ slept["startup"] = <<1, 2, 4, 8>>
    /\ cpc["p1"] = "done" /\ slept["p1"] = <<1, 2>>

\* C25 (as claimed): at most one connection and one channel are ever created
\* and cached, and every connection created is the cached one.
C25_Singletons ==
    /\ opened <= 1
    /\ chans <= 1
    /\ \A k \in 1..opened : k = conn

\* C26: prefetch_count is 1 when the consumer is registered, a worker has at
\* most one delivery unacknowledged, and it takes a delivery only when it holds
\* no other.
C26_OneUnackedPerWorker ==
    /\ [](\A w \in WorkerIds :
            /\ wstart[w] = "consuming" => prefetch[w] = 1
            /\ Unacked(w) <= 1)
    /\ [][\A w \in WorkerIds :
            handled'[w] # handled[w] => ~unacked[w] /\ inbox'[w] = <<>>]_vars

C26_Witness ==
    \E w \in WorkerIds :
       /\ unacked[w] /\ handled[w] = 1 /\ queue # <<>>
       /\ \A v \in WorkerIds \ {w} : wstart[v] = "exited"

\* C27: a worker whose start-up validation failed has exited with a nonzero
\* status, has opened no channel or consumer, has received, taken, acknowledged
\* or rejected no delivery, and no step of it changes a task or the queue.
C27_FailedValidationExits ==
    /\ [](\A w \in WorkerIds :
            valid[w] = "failed" =>
               /\ wstart[w] = "exited" /\ exitcode[w] > 0
               /\ prefetch[w] = 0 /\ inbox[w] = <<>> /\ handled[w] = 0
               /\ wpc[w] = "idle" /\ held[w] = NoMsg /\ ~unacked[w])
    /\ [][\A w \in WorkerIds :
            (valid'[w] = "failed" /\ valid[w] # "failed") =>
               UNCHANGED <<tasks, history, queue>>]_vars

C27_Witness ==
    \E w \in WorkerIds :
       /\ valid[w] = "failed" /\ exitcode[w] = 1
       /\ queue # <<>>
       /\ \E t \in DOMAIN tasks : tasks[t].current_status = COMPLETED

\* C28 (as claimed): once a request is answered, its response header, its
\* response body and the message published for it carry one correlation id,
\* the request's header value when it sent one, and a request that sent no
\* header shares its id with no other request.
C28_OneCorrelationId ==
    \A r \in Requests :
       cpos[r] = "done" =>
          /\ resphdr[r] = bodycid[r]
          /\ msgcid[r] = bodycid[r]
          /\ (hdr[r] # <<>> /\ hdr[r][1] # "") => resphdr[r] = hdr[r][1]
          /\ \A s \in Requests \ {r} :
                (hdr[r] = <<>> /\ cpos[s] = "done") =>
                    resphdr[r] \notin {resphdr[s], bodycid[s], msgcid[s]}

\* C29: the result of a COMPLETED task is a map whose keys are strings over
\* {'0','1'} and whose values are integers >= 0 (possibly empty), and counts
\* that are not such a map never end as the result of a COMPLETED task.
IsBitstringMap(c) ==
    /\ c.is_dict
    /\ \A i \in 1..Len(c.items) :
          /\ c.items[i].key.is_str
          /\ \A j \in 1..Len(c.items[i].key.chars) : c.items[i].key.chars[j] \in {"0", "1"}
          /\ c.items[i].value.is_int /\ c.items[i].value.n >= 0

C29_CompletedResultIsCounts ==
    /\ fstatus = COMPLETED => fresult # NULL /\ IsBitstringMap(fresult[1]) /\ fresult[1] = raw
    /\ (fpc = "done" /\ ~IsBitstringMap(raw)) => fstatus = FAILED /\ fresult = NULL

C29_Witness ==
    /\ fstatus = COMPLETED
    /\ fresult = <<Counts(TRUE, <<[key |-> Key(TRUE, <<"0", "1">>), value |-> Value(TRUE, 2)],
                                  [key |-> Key(TRUE, <<>>), value |-> Value(TRUE, 0)]>>)>>

\* C30: when the store fails while the task is created, the submission is
\* answered 503, no row of it is committed and no message is published for it,
\* then or later.
C30_CreateFailureIs503 ==
    /\ [][\A r \in Requests :
            (Step(r) = "create" /\ Valid(request[r]) /\ rpc'[r] = Done) =>
               /\ response'[r] = 503
               /\ r \notin DOMAIN tasks' /\ r \notin DOMAIN history'
               /\ queue' = queue /\ published'[r] = "none"]_vars
    /\ [](\A r \in Requests :
            response[r] = 503 =>
               /\ r \notin DOMAIN tasks
               /\ published[r] = "none"
               /\ \A i \in 1..Len(queue) : queue[i].task_id # r
               /\ \A w \in WorkerIds : held[w].task_id # r)

C30_Witness ==
    \E r \in Requests :
       /\ response[r] = 503 /\ rpc[r] = Done /\ faults = 1
       /\ \E t \in DOMAIN tasks : tasks[t].current_status = COMPLETED

\* C31 (as claimed): a task leaves PROCESSING only by a write of the worker
\* whose claim of it returned true, and that worker's commit applies.
C31_OnlyClaimerLeavesProcessing ==
    [][\A w \in WorkerIds :
         /\ \A t \in DOMAIN tasks :
               (/\ held[w].task_id = t
                /\ wpc'[w] # wpc[w]
                /\ tasks[t].current_status = PROCESSING
                /\ tasks'[t].current_status \in Terminal) => claimed[w]
         /\ (claimed[w] /\ wpc[w] = "commit" /\ wpc'[w] = "idle") =>
               update_applies(held[w].task_id, CommitCall(outcome[w]))]_vars

\* C32: executor.execute is called at most once per task, by a worker whose
\* claim of that task returned true, and a worker that holds a delivery calls
\* it at most once for it.
C32_SimulatorAtMostOnce ==
    /\ [](\A t \in DOMAIN executed : Len(executed[t]) <= 1)
    /\ [][\A t \in DOMAIN executed :
            executed'[t] # executed[t] =>
               \E w \in WorkerIds :
                  /\ held[w].task_id = t /\ claimed[w] /\ wpc[w] = "execute"
                  /\ wpc'[w] # "execute"
                  /\ executed[t] = <<>>]_vars

C32_Witness ==
    \E t \in TaskIds :
       /\ Len(executed[t]) = 1
       /\ redeliveries = 1
       /\ \E w \in WorkerIds : held[w].task_id = t /\ wpc[w] = "get_task"
       /\ \E w \in WorkerIds : held[w].task_id = t /\ wpc[w] = "commit"

\* C33 (as claimed): a task that went from PROCESSING to COMPLETED had counts
\* returned by the simulator, one that went from PROCESSING to FAILED had the
\* simulator raise (when it ran or when it was constructed), and a task whose
\* simulation returned counts is not FAILED.
C33_OutcomeMatchesSimulator ==
    \A t \in DOMAIN tasks :
       /\ tasks[t].current_status = COMPLETED => executed[t] = <<"counts">>
       /\ (/\ tasks[t].current_status = FAILED
           /\ \E i \in 1..Len(history[t]) : history[t][i].status = PROCESSING) =>
              \/ executed[t] = <<"raised">>
              \/ executed[t] = <<>> /\ tasks[t].error_message = <<"setup_error">>
       /\ executed[t] = <<"counts">> => tasks[t].current_status # FAILED

\* C34 (as claimed): a worker that claimed a task gives up the delivery
\* (acknowledged, rejected or dropped) only when the task has left PROCESSING,
\* and within a delivery the claim precedes the simulator, the simulator the
\* commit, and the commit the acknowledgement.
C34_AckAfterCommit ==
    [][\A w \in WorkerIds :
         /\ (claimed[w] /\ wpc'[w] \in {"idle", "stopped"}) =>
               tasks'[held[w].task_id].current_status \in Terminal
         /\ wpc'[w] = "execute" => claimed'[w]
         /\ (wpc'[w] = "commit" /\ wpc[w] # "commit") => wpc[w] = "execute"]_vars

C36_CommitFalseWritesNothing ==
    [][\A w \in WorkerIds :
         (/\ wpc[w] = "commit"
          /\ wpc'[w] \notin {"commit", "stopped"}
          /\ faults' = faults
          /\ ~update_applies(held[w].task_id, CommitCall(outcome[w]))) =>
            /\ tasks' = tasks
            /\ history' = history
            /\ wpc'[w] = "idle"
            /\ ~unacked'[w]
            /\ queue' = queue]_vars
C36_Witness ==
    /\ commitFalse >= 1
    /\ \A w \in WorkerIds : wpc[w] = "idle"
    /\ \E t \in DOMAIN tasks : tasks[t].current_status = FAILED /\ Len(history[t]) = 3

\* C37: a delivery whose task_id names no row is acknowledged by the worker
\* that reads it: process_task returns, the message is not put back, no row and
\* no history entry appear for it and the simulator is never invoked for it.
C37_OrphanAcknowledged ==
    /\ [](/\ UnknownTask \notin DOMAIN tasks
          /\ UnknownTask \notin DOMAIN history
          /\ executed[UnknownTask] = <<>>
          /\ \A w \in WorkerIds :
                wpc[w] \in {"claim", "execute", "commit"} => held[w].task_id \in DOMAIN tasks)
    /\ [][\A w \in WorkerIds :
            (/\ wpc[w] = "get_task" /\ wpc'[w] \notin {"get_task", "stopped"}
             /\ held[w].task_id \notin DOMAIN tasks
             /\ faults' = faults) =>
               /\ wpc'[w] = "idle"
               /\ ~unacked'[w]
               /\ queue' = queue
               /\ tasks' = tasks /\ history' = history /\ executed' = executed]_vars
C37_Witness ==
    /\ foreign = 1
    /\ malformedSeen = 0
    /\ faults = 0
    /\ redeliveries = 0
    /\ queue = <<>>
    /\ \A w \in WorkerIds : wpc[w] = "idle"
    /\ \A r \in Requests : rpc[r] = 1

ReleaseRank(what) ==
    CASE what = "consume" -> 1
      [] what = "channel" -> 2
      [] what = "connection" -> 3
      [] what = "store" -> 4
C39_ReleaseOrder ==
    /\ [](\A w \in WorkerIds :
            /\ \A i \in 1..Len(released[w]) : \A j \in 1..Len(released[w]) :
                  i < j => ReleaseRank(released[w][i].what) < ReleaseRank(released[w][j].what)
            /\ released[w] # <<>> => released[w][1].what = "consume"
            /\ mpc[w] = "exited" =>
                  /\ ~wchan[w].ref
                  /\ ~wconn[w].ref
                  /\ released[w][Len(released[w])].what = "store"
                  /\ ~released[w][Len(released[w])].raised => ~dbopen[w])
    /\ [][\A w \in WorkerIds :
            /\ (mpc[w] = "close_channel" /\ mpc'[w] # mpc[w] /\ wchan[w].ref /\ wchan[w].open) =>
                  released'[w] = Append(released[w], Released("channel", wchan'[w].open))
            /\ (mpc[w] = "close_connection" /\ mpc'[w] # mpc[w] /\ wconn[w].ref /\ wconn[w].open) =>
                  released'[w] = Append(released[w], Released("connection", wconn'[w].open))]_vars
C39_Witness ==
    \E w \in WorkerIds :
       /\ mpc[w] = "exited"
       /\ signalled[w]
       /\ ~dbopen[w]
       /\ Len(released[w]) = 4
       /\ released[w][2] = Released("channel", TRUE)
       /\ released[w][3] = Released("connection", FALSE)

\* C40: a step of a worker or of a submission changes the row and the history
\* of no task but its own; a history grows only by the entry of a transition of
\* its own task, made by a worker holding a message of that task, and begins
\* with the entry of its own creation.
C40_TasksIndependent ==
    [][/\ \A w \in WorkerIds : wpc'[w] # wpc[w] =>
             \A u \in TaskIds \ {held[w].task_id} :
                /\ (u \in DOMAIN tasks) = (u \in DOMAIN tasks')
                /\ (u \in DOMAIN history) = (u \in DOMAIN history')
                /\ u \in DOMAIN tasks => tasks'[u] = tasks[u]
                /\ u \in DOMAIN history => history'[u] = history[u]
       /\ \A r \in Requests : rpc'[r] # rpc[r] =>
             \A u \in TaskIds \ {r} :
                /\ (u \in DOMAIN tasks) = (u \in DOMAIN tasks')
                /\ (u \in DOMAIN history) = (u \in DOMAIN history')
                /\ u \in DOMAIN tasks => tasks'[u] = tasks[u]
                /\ u \in DOMAIN history => history'[u] = history[u]
       /\ \A u \in TaskIds :
             (u \in DOMAIN history /\ u \in DOMAIN history' /\ history'[u] # history[u]) =>
                /\ Len(history'[u]) = Len(history[u]) + 1
                /\ SubSeq(history'[u], 1, Len(history[u])) = history[u]
                /\ history'[u][Len(history'[u])].status = tasks'[u].current_status
                /\ tasks'[u].current_status # tasks[u].current_status
                /\ \E w \in WorkerIds : held[w].task_id = u /\ wpc'[w] # wpc[w]
       /\ \A u \in TaskIds :
             (u \notin DOMAIN history /\ u \in DOMAIN history') =>
                /\ rpc'[u] # rpc[u]
                /\ Len(history'[u]) = 1
                /\ history'[u][1].status = PENDING]_vars
C40_Witness ==
    \E t \in DOMAIN tasks : \E u \in DOMAIN tasks :
       /\ tasks[t].current_status = COMPLETED
       /\ Len(history[t]) = 3
       /\ tasks[u].current_status = PENDING
       /\ Len(history[u]) = 1
       /\ history[u][1].status = PENDING

====
